---- MODULE Spec2Model ----
(***************************************************************************)
(* The synthetic research engine of orenda_bridge: the ground-truth corpus *)
(* (synthetic_engine/ground_truth.py) and the engine with its profile      *)
(* cache, seeded sampler and analytics (synthetic_engine/research_engine). *)
(*                                                                         *)
(* Texts are sequences of one-character strings, tokens are strings.       *)
(* A Python object that may be absent is a record with a `live` flag.      *)
(***************************************************************************)
EXTENDS Integers, Sequences, FiniteSets, TLC

VARIABLES
    defaultFile,   \* what is stored at GROUND_TRUTH_PATH
    engine,        \* the SyntheticResearchEngine the caller holds
    twin,          \* a second instance built with the same arguments
    arg,           \* the corpus argument the engine was constructed with
    derivations,   \* how often this instance ran the profile derivation loop
    ret,           \* the last call: operation, arguments, outcome
    server         \* server.py: the module-level engine and the request handlers

vars == <<defaultFile, engine, twin, arg, derivations, ret, server>>

----------------------------------------------------------------------------
(* Bounds of the model *)

MaxSessions == 2       \* sessions in an injected corpus
MaxLimit == 2          \* largest max_archetypes / max_methods passed
MaxCount == 2          \* largest count passed to simulate_sessions
MaxTurnsArg == 2       \* largest max_turns passed to simulate_sessions
MaxDerivations == 2    \* the derivation counter stops counting here

DefaultSeed == 13
Seeds == {DefaultSeed, DefaultSeed + 1}

----------------------------------------------------------------------------
(* Python built-ins the code relies on *)

Min(a, b) == IF a < b THEN a ELSE b
Max(a, b) == IF a > b THEN a ELSE b

\* an index of a slice, as list.__getitem__ normalises it
PyClamp(i, n) == IF i < 0 THEN Max(0, n + i) ELSE Min(i, n)

\* s[start:stop]
PySlice(s, start, stop) ==
    LET a == PyClamp(start, Len(s))
        b == PyClamp(stop, Len(s))
    IN  IF a >= b THEN <<>> ELSE SubSeq(s, a + 1, b)

\* s[:stop]
PyPrefix(s, stop) == PySlice(s, 0, stop)

IsPrefix(s, t) == Len(s) <= Len(t) /\ SubSeq(t, 1, Len(s)) = s

RECURSIVE SumSeq(_)
SumSeq(s) == IF s = <<>> THEN 0 ELSE Head(s) + SumSeq(Tail(s))

\* sorted(items, key=lambda kv: kv[1], reverse=True): stable, descending
RECURSIVE SortDesc(_)
SortDesc(items) ==
    IF items = <<>> THEN <<>>
    ELSE LET rest == SortDesc(SubSeq(items, 1, Len(items) - 1))
             x == items[Len(items)]
             \* x goes after every element whose count is >= its own
             pos == Cardinality({i \in 1..Len(rest) : rest[i][2] >= x[2]})
         IN  SubSeq(rest, 1, pos) \o <<x>> \o SubSeq(rest, pos + 1, Len(rest))

\* counter[key] += n on an insertion-ordered dict of <<key, count>> pairs
CounterAdd(counter, key, n) ==
    IF \E i \in 1..Len(counter) : counter[i][1] = key
    THEN [i \in 1..Len(counter) |->
            IF counter[i][1] = key THEN <<key, counter[i][2] + n>> ELSE counter[i]]
    ELSE Append(counter, <<key, n>>)

----------------------------------------------------------------------------
(* str methods, character by character *)

UpperCase == <<"A", "B", "C", "D", "E", "F", "G", "H", "I", "J", "K", "L", "M",
               "N", "O", "P", "Q", "R", "S", "T", "U", "V", "W", "X", "Y", "Z">>
LowerCase == <<"a", "b", "c", "d", "e", "f", "g", "h", "i", "j", "k", "l", "m",
               "n", "o", "p", "q", "r", "s", "t", "u", "v", "w", "x", "y", "z">>
Digits == {"0", "1", "2", "3", "4", "5", "6", "7", "8", "9"}
Whitespace == {" ", "\n", "\t"}

Range(s) == {s[i] : i \in 1..Len(s)}

\* ch.lower()
LowerChar(ch) ==
    IF ch \in Range(UpperCase)
    THEN LowerCase[CHOOSE i \in 1..Len(UpperCase) : UpperCase[i] = ch]
    ELSE ch

\* ch.isalnum()
IsAlnum(ch) == ch \in Range(UpperCase) \cup Range(LowerCase) \cup Digits

\* text.lower()
Lower(text) == [i \in 1..Len(text) |-> LowerChar(text[i])]

\* text.replace(old, " ") for a one-character old
ReplaceWithSpace(text, old) ==
    [i \in 1..Len(text) |-> IF text[i] = old THEN " " ELSE text[i]]

\* text.split(): the maximal runs of non-whitespace characters
RECURSIVE SplitFrom(_, _, _)
SplitFrom(text, i, word) ==
    IF i > Len(text)
    THEN IF word = <<>> THEN <<>> ELSE <<word>>
    ELSE IF text[i] \in Whitespace
         THEN (IF word = <<>> THEN <<>> ELSE <<word>>) \o SplitFrom(text, i + 1, <<>>)
         ELSE SplitFrom(text, i + 1, Append(word, text[i]))

Split(text) == SplitFrom(text, 1, <<>>)

\* "".join(chars): a token as a string
RECURSIVE JoinChars(_)
JoinChars(chars) ==
    IF chars = <<>> THEN "" ELSE Head(chars) \o JoinChars(Tail(chars))

\* " ".join(words), as a text
RECURSIVE JoinWords(_)
JoinWords(words) ==
    IF words = <<>> THEN <<>>
    ELSE IF Len(words) = 1 THEN words[1]
    ELSE words[1] \o <<" ">> \o JoinWords(Tail(words))

----------------------------------------------------------------------------
(* ground_truth.py: Turn, Session, GroundTruthCorpus *)

GROUND_TRUTH_PATH == "data/ground_truth/ground_truth_sessions.json"
CustomPath == "custom_sessions.json"

Turn(speaker, text) == [speaker |-> speaker, text |-> text]

Session(session_id, source_file, turns) ==
    [session_id |-> session_id, source_file |-> source_file, turns |-> turns]

\* speaker.lower().startswith("user")
is_user(turn) == IsPrefix(<<"u", "s", "e", "r">>, Lower(turn.speaker))

\* speaker.lower().startswith("assistant")
is_assistant(turn) ==
    IsPrefix(<<"a", "s", "s", "i", "s", "t", "a", "n", "t">>, Lower(turn.speaker))

user_turns(session) == SelectSeq(session.turns, is_user)

assistant_turns(session) == SelectSeq(session.turns, is_assistant)

\* sum(len(turn.text) for turn in self.turns) // 4
total_tokens_estimate(session) ==
    SumSeq([i \in 1..Len(session.turns) |-> Len(session.turns[i].text)]) \div 4

(* What json.loads returns is kept with its kind: a record tagged "object" *)
(* carries its keys as fields, an array its items; any other value is     *)
(* neither a dict nor a list.                                             *)
IsDict(value) == value.json = "object"

IsList(value) == value.json = "array"

\* key in object
HasKey(object, key) == key \in DOMAIN object

\* object.get(key, default)
GetOr(object, key, default) == IF HasKey(object, key) THEN object[key] ELSE default

\* Variant: a turn entry is kept whenever it carries a text key
KeepsTurnWithKey(turn) == IsDict(turn) /\ HasKey(turn, "text")

\* if isinstance(turn, dict) and turn.get("text")
KeepsTurn(turn) == IsDict(turn) /\ HasKey(turn, "text") /\ turn.text # <<>>

\* Turn(speaker=turn["speaker"], text=turn["text"]) for each kept entry
BuildTurns(kept) ==
    IF \E i \in 1..Len(kept) : ~HasKey(kept[i], "speaker")
    THEN [raised |-> "KeyError"]
    ELSE [raised |-> "none",
          turns |-> [i \in 1..Len(kept) |-> Turn(kept[i].speaker, kept[i].text)]]

\* The list comprehension of _load over one session entry's turns
LoadTurns(rawTurns) == BuildTurns(SelectSeq(rawTurns, KeepsTurn))

\* Session(session_id=item.get(...), source_file=item.get(...), turns=turns)
SessionOf(item, loaded) ==
    IF loaded.raised # "none"
    THEN [raised |-> loaded.raised]
    ELSE [raised |-> "none",
          session |-> Session(GetOr(item, "session_id", "unknown"),
                              GetOr(item, "source_file", "unknown"),
                              loaded.turns)]

\* One iteration of `for item in raw["sessions"]`; item.get needs a dict
LoadSession(item) ==
    IF ~IsDict(item)
    THEN [raised |-> "AttributeError"]
    ELSE SessionOf(item, LoadTurns(GetOr(item, "turns", <<>>)))

\* The loop of _load: the first exception ends it
RECURSIVE LoadSessions(_, _)
LoadSessions(sessions, items) ==
    IF items = <<>> THEN [raised |-> "none", sessions |-> sessions]
    ELSE IF LoadSession(Head(items)).raised # "none"
         THEN [raised |-> LoadSession(Head(items)).raised]
         ELSE LoadSessions(Append(sessions, LoadSession(Head(items)).session), Tail(items))

\* self.sessions = sessions, reached only when the loop ran to its end
Loaded(path, done) ==
    IF done.raised # "none"
    THEN [raised |-> done.raised, message |-> ""]
    ELSE [raised |-> "none", message |-> "",
          corpus |-> [live |-> TRUE, path |-> path, sessions |-> done.sessions]]

\* The message of the FileNotFoundError, written without its backquotes
NotFoundMessage(path) ==
    "Ground truth file not found: " \o path \o ". Run python process_ground_truth.py first."

ContainMessage == "ground_truth_sessions.json must contain a 'sessions' list"

\* Variant: a file that does not exist is read as one without sessions
LoadLenient(path, file) ==
    IF ~file.exists
    THEN Loaded(path, [raised |-> "none", sessions |-> <<>>])
    ELSE IF ~HasKey(file.raw, "sessions") \/ ~IsList(file.raw.sessions)
    THEN [raised |-> "ValueError", message |-> ContainMessage]
    ELSE Loaded(path, LoadSessions(<<>>, file.raw.sessions.items))

\* GroundTruthCorpus(path): the object, or the exception _load raises
Load(path, file) ==
    IF ~file.exists
    THEN [raised |-> "FileNotFoundError", message |-> NotFoundMessage(path)]
    ELSE IF ~HasKey(file.raw, "sessions") \/ ~IsList(file.raw.sessions)
    THEN [raised |-> "ValueError", message |-> ContainMessage]
    ELSE Loaded(path, LoadSessions(<<>>, file.raw.sessions.items))

\* len(corpus)
CorpusLen(corpus) == Len(corpus.sessions)

total_turns(corpus) ==
    SumSeq([i \in 1..Len(corpus.sessions) |-> Len(corpus.sessions[i].turns)])

\* Variant: the characters of the whole corpus are summed before dividing
total_token_estimate_pooled(corpus) ==
    SumSeq([i \in 1..Len(corpus.sessions) |->
               SumSeq([n \in 1..Len(corpus.sessions[i].turns) |->
                          Len(corpus.sessions[i].turns[n].text)])]) \div 4

total_token_estimate(corpus) ==
    SumSeq([i \in 1..Len(corpus.sessions) |-> total_tokens_estimate(corpus.sessions[i])])

----------------------------------------------------------------------------
(* The transcripts the model draws its corpora from *)

UserSpeaker == <<"u", "s", "e", "r">>
AssistantSpeaker == <<"a", "s", "s", "i", "s", "t", "a", "n", "t">>
OtherSpeaker == <<"S", "y", "s", "t", "e", "m">>

\* "Pricing / income"
TextPricing == <<"P", "r", "i", "c", "i", "n", "g", " ", "/", " ", "i", "n", "c", "o", "m", "e">>
\* "ok"
TextOk == <<"o", "k">>
\* "my job"
TextJob == <<"m", "y", " ", "j", "o", "b">>
\* "art pays"
TextArt == <<"a", "r", "t", " ", "p", "a", "y", "s">>
\* " "
TextBlank == <<" ">>

SessionNoTurns == Session("s0", "s0.txt", <<>>)

SessionMoney ==
    Session("s1", "s1.txt", <<Turn(UserSpeaker, TextPricing), Turn(AssistantSpeaker, TextOk)>>)

SessionJob ==
    Session("s2", "s2.txt", <<Turn(UserSpeaker, TextJob), Turn(AssistantSpeaker, TextArt),
                              Turn(UserSpeaker, TextBlank)>>)

SessionPool == {SessionNoTurns, SessionMoney, SessionJob}

SeqsUpTo(S, n) == UNION {[1..m -> S] : m \in 0..n}

\* Corpora loaded successfully from some other path, as a caller may inject them
InjectedCorpora ==
    {[live |-> TRUE, path |-> CustomPath, sessions |-> ss] :
        ss \in SeqsUpTo(SessionPool, MaxSessions)}

\* corpus=None
NoCorpus == [live |-> FALSE]

\* The payload process_ground_truth.py writes: {"sessions": [...]}
JsonArray(items) == [json |-> "array", items |-> items]

RawTurn(speaker, text) == [json |-> "object", speaker |-> speaker, text |-> text]

RawSession(session_id, source_file, turns) ==
    [json |-> "object", session_id |-> session_id, source_file |-> source_file,
     turns |-> turns]

FileOf(items) ==
    [exists |-> TRUE, raw |-> [json |-> "object", sessions |-> JsonArray(items)]]

\* What may be stored at GROUND_TRUTH_PATH: nothing, {"sessions": []}, or two
\* transcripts of which the first has only a turn with empty text
FileMissing == [exists |-> FALSE]
FileNoSessions == FileOf(<<>>)
FileTwoSessions ==
    FileOf(<<RawSession("d0", "d0.txt", <<RawTurn(UserSpeaker, <<>>)>>),
             RawSession("d1", "d1.txt", <<RawTurn(UserSpeaker, TextJob),
                                          RawTurn(AssistantSpeaker, <<>>),
                                          RawTurn(AssistantSpeaker, TextOk),
                                          RawTurn(UserSpeaker, TextPricing)>>)>>)

DefaultFiles == {FileMissing, FileNoSessions, FileTwoSessions}

----------------------------------------------------------------------------
(* The payloads the loader and the per-session helpers are exercised on *)

MaxRawTurns == 2

\* "Work, city work"
TextWork ==
    <<"W", "o", "r", "k", ",", " ", "c", "i", "t", "y", " ", "w", "o", "r",
      "k">>
\* "Pricing/income, pricing!"
TextRates ==
    <<"P", "r", "i", "c", "i", "n", "g", "/", "i", "n", "c", "o", "m", "e",
      ",", " ", "p", "r", "i", "c", "i", "n", "g", "!">>
\* "Consider consulting"
TextConsider ==
    <<"C", "o", "n", "s", "i", "d", "e", "r", " ", "c", "o", "n", "s", "u",
      "l", "t", "i", "n", "g">>
\* "  my job:  music\tcity work art "
TextMusic ==
    <<" ", " ", "m", "y", " ", "j", "o", "b", ":", " ", " ", "m", "u", "s",
      "i", "c", "\t", "c", "i", "t", "y", " ", "w", "o", "r", "k", " ", "a",
      "r", "t", " ">>
\* "dance\nhealing costs money freelance design where"
TextDance ==
    <<"d", "a", "n", "c", "e", "\n", "h", "e", "a", "l", "i", "n", "g", " ",
      "c", "o", "s", "t", "s", " ", "m", "o", "n", "e", "y", " ", "f", "r",
      "e", "e", "l", "a", "n", "c", "e", " ", "d", "e", "s", "i", "g", "n",
      " ", "w", "h", "e", "r", "e">>
\* "later"
TextLater ==
    <<"l", "a", "t", "e", "r">>

\* json values that are neither a dict nor a list
NotARecord == [json |-> "string"]
NotAList == [json |-> "null"]

RawTurnNoText == [json |-> "object", speaker |-> UserSpeaker]
RawTurnNoSpeaker == [json |-> "object", text |-> TextOk]

RawTurnPool ==
    {RawTurn(UserSpeaker, TextPricing), RawTurn(UserSpeaker, TextWork),
     RawTurn(AssistantSpeaker, TextArt), RawTurn(UserSpeaker, TextBlank),
     RawTurn(UserSpeaker, <<>>), RawTurnNoText, RawTurnNoSpeaker, NotARecord}

\* A transcript with thirteen keywords in five categories, a user turn of
\* whitespace only and four user turns with words
RawRich ==
    RawSession("r1", "r1.txt",
               <<RawTurn(UserSpeaker, TextRates), RawTurn(AssistantSpeaker, TextConsider),
                 RawTurn(UserSpeaker, TextBlank), RawTurn(UserSpeaker, TextMusic),
                 RawTurn(UserSpeaker, TextDance), RawTurn(UserSpeaker, TextLater)>>)

RawMoney ==
    RawSession("m1", "m1.txt",
               <<RawTurn(UserSpeaker, TextPricing), RawTurn(AssistantSpeaker, TextOk)>>)

\* {}: a session entry without any key
RawBare == [json |-> "object"]

RawSpeakerless == RawSession("k1", "k1.txt", <<RawTurnNoSpeaker>>)

\* Only "pricing" is long enough to be a keyword
RawPricing ==
    RawSession("p1", "p1.txt",
               <<RawTurn(UserSpeaker, <<"m", "y", " ", "p", "r", "i", "c", "i", "n", "g", "?">>),
                 RawTurn(AssistantSpeaker, TextConsider),
                 RawTurn(OtherSpeaker, TextLater)>>)

RawSessions ==
    {RawSession("w1", "w1.txt", turns) : turns \in SeqsUpTo(RawTurnPool, MaxRawTurns)}
        \cup {RawRich, RawPricing}

RawPairPool == {RawRich, RawMoney, RawBare, RawSpeakerless, NotARecord}

\* {} and {"sessions": null}
FileNoKey == [exists |-> TRUE, raw |-> [json |-> "object"]]
FileNotAList == [exists |-> TRUE, raw |-> [json |-> "object", sessions |-> NotAList]]

RawWork == RawSession("c1", "c1.txt", <<RawTurn(UserSpeaker, TextWork)>>)

\* Three transcripts whose categories are first met in an order other than
\* that of their counts
FileThreeSessions == FileOf(<<RawWork, RawMoney, RawMoney>>)

WideFiles ==
    {FileMissing, FileNoKey, FileNotAList, FileNoSessions, FileThreeSessions}
        \cup {FileOf(<<s>>) : s \in RawSessions}
        \cup {FileOf(<<a, b>>) : a \in RawPairPool, b \in RawPairPool}

----------------------------------------------------------------------------
(* research_engine.py: the taxonomy and the per-session helpers *)

CategoryOrder == <<"money", "career", "location", "care", "creative", "movement">>

CATEGORY_KEYWORDS ==
    [money    |-> {"money", "income", "earn", "financial", "pricing", "cost"},
     career   |-> {"career", "work", "job", "profession", "freelance", "consulting"},
     location |-> {"where", "city", "place", "country", "move", "location"},
     care     |-> {"child", "care", "nurture", "support", "heal"},
     creative |-> {"art", "music", "creative", "design", "paint", "write"},
     movement |-> {"body", "movement", "somatic", "dance", "physical"}]

\* _simple_tokenize: lower, "/" and newline to spaces, split, keep the
\* alphanumeric characters of each piece, drop the pieces left empty
simple_tokenize(text) ==
    LET pieces == Split(ReplaceWithSpace(ReplaceWithSpace(Lower(text), "/"), "\n"))
        tokens == [i \in 1..Len(pieces) |-> JoinChars(SelectSeq(pieces[i], IsAlnum))]
    IN  SelectSeq(tokens, LAMBDA t : t # "")

\* Variant: tokens of 3 characters are counted too
RECURSIVE CountTokensFromThree(_, _)
CountTokensFromThree(counter, tokens) ==
    IF tokens = <<>> THEN counter
    ELSE CountTokensFromThree(IF Len(Head(tokens)) <= 2 THEN counter
                              ELSE CounterAdd(counter, Head(tokens), 1),
                              Tail(tokens))

\* counter[token] += 1 for the tokens longer than 3 characters
RECURSIVE CountTokens(_, _)
CountTokens(counter, tokens) ==
    IF tokens = <<>> THEN counter
    ELSE CountTokens(IF Len(Head(tokens)) <= 3 THEN counter
                     ELSE CounterAdd(counter, Head(tokens), 1),
                     Tail(tokens))

RECURSIVE CountTurns(_, _)
CountTurns(counter, turns) ==
    IF turns = <<>> THEN counter
    ELSE CountTurns(CountTokens(counter, simple_tokenize(Head(turns).text)), Tail(turns))

\* Variant: the tokens of every turn are counted, whoever speaks
extract_keywords_all_turns(session) == SortDesc(CountTurns(<<>>, session.turns))

\* _extract_keywords: counter.most_common() over the user turns
extract_keywords(session) == SortDesc(CountTurns(<<>>, user_turns(session)))

\* hits[category] += freq for every keyword in the category's vocabulary
RECURSIVE HitsOf(_, _, _)
HitsOf(hits, category, keywords) ==
    IF keywords = <<>> THEN hits
    ELSE HitsOf(IF Head(keywords)[1] \in CATEGORY_KEYWORDS[category]
                THEN CounterAdd(hits, category, Head(keywords)[2])
                ELSE hits,
                category, Tail(keywords))

\* The outer loop over the taxonomy: the categories are distinct keys, so
\* the dictionary is each category's entry, if it has one, in loop order
RECURSIVE HitsAll(_, _)
HitsAll(categories, keywords) ==
    IF categories = <<>> THEN <<>>
    ELSE HitsOf(<<>>, Head(categories), keywords) \o HitsAll(Tail(categories), keywords)

\* Variant: every category has an entry, hit or not
detect_categories_all(keywords) ==
    LET hits == [i \in 1..Len(CategoryOrder) |->
                    <<CategoryOrder[i],
                      SumSeq([n \in 1..Len(keywords) |->
                                IF keywords[n][1] \in CATEGORY_KEYWORDS[CategoryOrder[i]]
                                THEN keywords[n][2] ELSE 0])>>]
        top == PyPrefix(SortDesc(hits), 3)
    IN  [i \in 1..Len(top) |-> top[i][1]]

\* _detect_categories
detect_categories(keywords) ==
    LET hits == HitsAll(CategoryOrder, keywords)
        sorted_hits == SortDesc(hits)
        top == PyPrefix(sorted_hits, 3)
    IN  IF hits = <<>> THEN <<"general">>
        ELSE [i \in 1..Len(top) |-> top[i][1]]

\* " ".join(turn.text.strip().split())
Cleaned(text) == JoinWords(Split(text))

\* Variant: every user turn looked at uses up one of the `limit` slots
RECURSIVE LinesLoopSlots(_, _, _)
LinesLoopSlots(lines, turns, limit) ==
    IF turns = <<>> \/ limit <= 0 THEN lines
    ELSE LinesLoopSlots(IF Cleaned(Head(turns).text) # <<>>
                        THEN Append(lines, Cleaned(Head(turns).text)) ELSE lines,
                        Tail(turns), limit - 1)

\* _representative_user_lines: the loop stops once `limit` lines are kept
RECURSIVE LinesLoop(_, _, _)
LinesLoop(lines, turns, limit) ==
    IF turns = <<>> THEN lines
    ELSE LET cleaned == Cleaned(Head(turns).text)
             kept == IF cleaned # <<>> THEN Append(lines, cleaned) ELSE lines
         IN  IF Len(kept) >= limit THEN kept
             ELSE LinesLoop(kept, Tail(turns), limit)

representative_user_lines(session, limit) ==
    LinesLoop(<<>>, user_turns(session), limit)

\* Every session the model can hold, and its keywords computed once
SessionUniverse ==
    SessionPool \cup UNION {IF Load(GROUND_TRUTH_PATH, f).raised = "none"
                            THEN Range(Load(GROUND_TRUTH_PATH, f).corpus.sessions)
                            ELSE {} : f \in DefaultFiles \cup WideFiles}

KeywordsOf == [s \in SessionUniverse |-> extract_keywords(s)]

\* SessionProfile(...) as generate_archetypes builds it for one session
SessionProfile(session) ==
    LET keywords == KeywordsOf[session]
        top == PyPrefix(keywords, 8)
    IN  [session_id |-> session.session_id,
         dominant_categories |-> detect_categories(keywords),
         top_keywords |-> [i \in 1..Len(top) |-> top[i][1]],
         representative_user_lines |-> representative_user_lines(session, 3),
         token_estimate |-> total_tokens_estimate(session)]

\* The derivation loop of generate_archetypes: sessions without turns are
\* skipped, every other session appends its profile
ProfileOf == [s \in SessionUniverse |-> SessionProfile(s)]

\* Variant: no `continue` for a session without turns
DeriveProfilesUnfiltered(sessions) ==
    [i \in 1..Len(sessions) |-> ProfileOf[sessions[i]]]

RECURSIVE DeriveProfiles(_)
DeriveProfiles(sessions) ==
    IF sessions = <<>> THEN <<>>
    ELSE IF Head(sessions).turns = <<>>
         THEN DeriveProfiles(Tail(sessions))
         ELSE <<ProfileOf[Head(sessions)]>> \o DeriveProfiles(Tail(sessions))

----------------------------------------------------------------------------
(* random.Random(seed): a deterministic generator, one state per instance. *)
(* The library's Mersenne Twister is stood in for by a full-period linear  *)
(* congruential generator; what the engine relies on is kept: the stream   *)
(* is a function of the seed, and each draw advances the state once.       *)

RandomSeeded(seed) == seed % 8

RandomNext(r) == (5 * r + 3) % 8

\* _randbelow(n), n > 0: one step of the generator, a value in 0..n-1
RandBelow(r, n) == [random |-> RandomNext(r), value |-> (RandomNext(r) \div 2) % n]

\* randint(a, b) = a + _randbelow(b - a + 1)
RandInt(r, a, b) ==
    [random |-> RandBelow(r, b - a + 1).random, value |-> a + RandBelow(r, b - a + 1).value]

----------------------------------------------------------------------------
(* research_engine.py: SyntheticResearchEngine.  Every public method is an *)
(* operator from the engine to a record: the engine afterwards, the value  *)
(* returned or the exception raised, and whether the derivation loop ran.  *)

NoEngine == [live |-> FALSE]

\* server.py is not running: the engine is driven by a caller of its own
NotServing == [serving |-> FALSE]

\* bool(corpus): None is false, and so is an object whose __len__ is 0
Truthy(corpus) == corpus.live /\ CorpusLen(corpus) # 0

\* self.corpus, self.random, self._profiles once the corpus is chosen
EngineOver(chosen, seed, read_default) ==
    IF chosen.raised # "none"
    THEN [raised |-> chosen.raised, read_default |-> read_default]
    ELSE [raised |-> "none", read_default |-> read_default,
          engine |-> [live |-> TRUE,
                      corpus |-> chosen.corpus,
                      random |-> RandomSeeded(seed),
                      profiles |-> <<>>]]

\* __init__(corpus, seed): self.corpus = corpus or GroundTruthCorpus()
NewEngine(corpus, seed, file) ==
    IF Truthy(corpus)
    THEN EngineOver([raised |-> "none", corpus |-> corpus], seed, FALSE)
    ELSE EngineOver(Load(GROUND_TRUTH_PATH, file), seed, TRUE)

\* Variant: the cold call returns the whole list, `return profiles`
CacheAndReturnAll(e, profiles, max_archetypes) ==
    [engine |-> [e EXCEPT !.profiles = profiles], derived |-> TRUE,
     value |-> profiles]

\* Variant: the cold call caches what it returns, the first max_archetypes
CacheAndReturnTruncated(e, profiles, max_archetypes) ==
    [engine |-> [e EXCEPT !.profiles = PyPrefix(profiles, max_archetypes)],
     derived |-> TRUE,
     value |-> PyPrefix(profiles, max_archetypes)]

\* Variant: the derivation draws from the generator once
CacheAndReturnDrawing(e, profiles, max_archetypes) ==
    [engine |-> [e EXCEPT !.profiles = profiles, !.random = RandomNext(e.random)],
     derived |-> TRUE,
     value |-> PyPrefix(profiles, max_archetypes)]

\* self._profiles = profiles; return profiles[:max_archetypes]
CacheAndReturn(e, profiles, max_archetypes) ==
    [engine |-> [e EXCEPT !.profiles = profiles], derived |-> TRUE,
     value |-> PyPrefix(profiles, max_archetypes)]

\* Variant: the warm call keeps only the slice it returns
generate_archetypes_trimming(e, max_archetypes) ==
    IF e.profiles # <<>>
    THEN [engine |-> [e EXCEPT !.profiles = PyPrefix(e.profiles, max_archetypes)],
          derived |-> FALSE,
          value |-> PyPrefix(e.profiles, max_archetypes)]
    ELSE CacheAndReturn(e, DeriveProfiles(e.corpus.sessions), max_archetypes)

\* generate_archetypes(max_archetypes)
generate_archetypes(e, max_archetypes) ==
    IF e.profiles # <<>>
    THEN [engine |-> e, derived |-> FALSE,
          value |-> PyPrefix(e.profiles, max_archetypes)]
    ELSE CacheAndReturn(e, DeriveProfiles(e.corpus.sessions), max_archetypes)

\* start = randint(...); segment = turns[start : start + max_turns]; append
EmitSegment(acc, turns, start, max_turns) ==
    [acc EXCEPT !.random = start.random,
                !.session_draws = @ + 1,
                !.offset_draws = @ + 1,
                !.simulations = Append(@, PySlice(turns, start.value,
                                                  start.value + max_turns))]

\* Variant: the start offset is drawn before the turns are looked at
AfterPickEager(acc, random, session, max_turns) ==
    IF session.turns = <<>>
    THEN [acc EXCEPT !.random = RandInt(random, 0, Max(0, 0 - max_turns)).random,
                     !.session_draws = @ + 1,
                     !.skipped = @ + 1]
    ELSE EmitSegment(acc, session.turns,
                     RandInt(random, 0, Max(0, Len(session.turns) - max_turns)),
                     max_turns)

\* Variant: the start offset ranges over every index of the session
AfterPickAnyStart(acc, random, session, max_turns) ==
    IF session.turns = <<>>
    THEN [acc EXCEPT !.random = random,
                     !.session_draws = @ + 1,
                     !.skipped = @ + 1]
    ELSE EmitSegment(acc, session.turns,
                     RandInt(random, 0, Len(session.turns) - 1),
                     max_turns)

\* if not session.turns: continue
AfterPick(acc, random, session, max_turns) ==
    IF session.turns = <<>>
    THEN [acc EXCEPT !.random = random,
                     !.session_draws = @ + 1,
                     !.skipped = @ + 1]
    ELSE EmitSegment(acc, session.turns,
                     RandInt(random, 0, Max(0, Len(session.turns) - max_turns)),
                     max_turns)

\* session = self.random.choice(sessions), which raises on an empty list
Choose(acc, sessions, pick, max_turns) ==
    AfterPick(acc, pick.random, sessions[pick.value + 1], max_turns)

\* One iteration of the loop of simulate_sessions
SimulateStep(acc, sessions, max_turns) ==
    IF sessions = <<>>
    THEN [acc EXCEPT !.raised = "IndexError"]
    ELSE Choose(acc, sessions, RandBelow(acc.random, Len(sessions)), max_turns)

\* for _ in range(count): an exception ends the loop
RECURSIVE SimulateLoop(_, _, _, _)
SimulateLoop(acc, sessions, count, max_turns) ==
    IF count <= 0 \/ acc.raised # "none" THEN acc
    ELSE SimulateLoop(SimulateStep(acc, sessions, max_turns), sessions, count - 1, max_turns)

Simulated(e, done) ==
    [engine |-> [e EXCEPT !.random = done.random],
     raised |-> done.raised,
     value |-> IF done.raised = "none" THEN done.simulations ELSE <<>>,
     session_draws |-> done.session_draws,
     offset_draws |-> done.offset_draws,
     skipped |-> done.skipped]

\* simulate_sessions(count, max_turns); the draws are counted for the record
simulate_sessions(e, count, max_turns) ==
    Simulated(e, SimulateLoop([random |-> e.random, raised |-> "none",
                               simulations |-> <<>>, session_draws |-> 0,
                               offset_draws |-> 0, skipped |-> 0],
                              e.corpus.sessions, count, max_turns))

\* counts[category] += 1 for each dominant category of each profile
RECURSIVE CountCategories(_, _)
CountCategories(counts, categories) ==
    IF categories = <<>> THEN counts
    ELSE CountCategories(CounterAdd(counts, Head(categories), 1), Tail(categories))

RECURSIVE CountProfiles(_, _)
CountProfiles(counts, profiles) ==
    IF profiles = <<>> THEN counts
    ELSE CountProfiles(CountCategories(counts, Head(profiles).dominant_categories),
                       Tail(profiles))

CategoryCounts(got) ==
    [engine |-> got.engine, derived |-> got.derived,
     value |-> CountProfiles(<<>>, got.value)]

\* Variant: the categories of the first profile only
aggregate_categories_first(e) == CategoryCounts(generate_archetypes(e, 1))

\* _aggregate_categories: over generate_archetypes(max_archetypes=len(corpus))
aggregate_categories(e) == CategoryCounts(generate_archetypes(e, CorpusLen(e.corpus)))

\* keyword_counter[kw] += freq over the keywords of every session
RECURSIVE AddKeywords(_, _)
AddKeywords(counter, keywords) ==
    IF keywords = <<>> THEN counter
    ELSE AddKeywords(CounterAdd(counter, Head(keywords)[1], Head(keywords)[2]),
                     Tail(keywords))

\* Variant: a session contributes only its 8 profile keywords
RECURSIVE CountSessionsTop(_, _)
CountSessionsTop(counter, sessions) ==
    IF sessions = <<>> THEN counter
    ELSE CountSessionsTop(AddKeywords(counter, PyPrefix(KeywordsOf[Head(sessions)], 8)),
                          Tail(sessions))

RECURSIVE CountSessions(_, _)
CountSessions(counter, sessions) ==
    IF sessions = <<>> THEN counter
    ELSE CountSessions(AddKeywords(counter, KeywordsOf[Head(sessions)]),
                       Tail(sessions))

\* round(t / s, 2) in hundredths, ties to the even hundredth
RoundedAverage(t, s) ==
    IF 2 * ((100 * t) % s) > s \/ (2 * ((100 * t) % s) = s /\ ((100 * t) \div s) % 2 = 1)
    THEN (100 * t) \div s + 1
    ELSE (100 * t) \div s

\* total_turns / total_sessions if total_sessions else 0, then round(.., 2)
AverageTurns(turns, total_sessions) ==
    IF total_sessions # 0 THEN RoundedAverage(turns, total_sessions) ELSE 0

\* The record analyze_sessions returns; avg_turns_per_session in hundredths
Analysis(corpus, spread) ==
    [engine |-> spread.engine, derived |-> spread.derived,
     value |-> [total_sessions |-> CorpusLen(corpus),
                total_turns |-> total_turns(corpus),
                avg_turns_per_session |-> AverageTurns(total_turns(corpus), CorpusLen(corpus)),
                token_estimate |-> total_token_estimate(corpus),
                top_keywords |-> PyPrefix(SortDesc(CountSessions(<<>>, corpus.sessions)), 12),
                category_spread |-> spread.value]]

\* analyze_sessions()
analyze_sessions(e) == Analysis(e.corpus, aggregate_categories(e))

\* name.title() on the names a category can have
Title(name) ==
    CASE name = "money" -> "Money"
      [] name = "career" -> "Career"
      [] name = "location" -> "Location"
      [] name = "care" -> "Care"
      [] name = "creative" -> "Creative"
      [] name = "movement" -> "Movement"
      [] name = "general" -> "General"

\* the table of _suggest_moves_for_category
Suggestions ==
    [money    |-> <<"Map income streams mentioned in the chart.",
                    "Ask for recent earning experiments before offering ideas.">>,
     career   |-> <<"Contrast house rulers related to work vs. meaning.",
                    "Offer a pacing cue before diving into 10th-house themes.">>,
     location |-> <<"Relate planetary dignities to geographies or climates.",
                    "Invite the user to sense how place affects their nervous system.">>,
     care     |-> <<"Notice Moon/6th-house cues about service orientation.",
                    "Use guarded questions about emotional capacity.">>,
     creative |-> <<"Surface mythic references tied to Venus/Mercury placements.",
                    "Balance praise with an observation about creative pacing.">>,
     movement |-> <<"Tie Mars/ASC signatures to somatic practices.",
                    "Offer a pause for the user to notice bodily cues.">>,
     general  |-> <<"Stay slow; mirror back phrasing instead of inventing agendas.",
                    "Track relationship depth to modulate question frequency.">>]

\* Variant: a category without an entry gets no suggestion at all
suggest_moves_or_none(category) ==
    IF category \in DOMAIN Suggestions THEN Suggestions[category]
    ELSE <<>>

\* suggestions.get(category, suggestions["general"])
suggest_moves_for_category(category) ==
    IF category \in DOMAIN Suggestions THEN Suggestions[category]
    ELSE Suggestions["general"]

\* The record appended for one of the sorted categories
MethodRecord(name, weight) ==
    [method |-> Title(name) \o " Thread",
     focus |-> name,
     evidence |-> ToString(weight) \o " mentions across ground-truth sessions",
     suggested_moves |-> suggest_moves_for_category(name)]

MethodRecords(top) == [i \in 1..Len(top) |-> MethodRecord(top[i][1], top[i][2])]

\* Variant: every sorted category becomes a record
MethodsUncut(analysis, max_methods) ==
    [engine |-> analysis.engine, derived |-> analysis.derived,
     value |-> MethodRecords(SortDesc(analysis.value.category_spread))]

\* sorted_categories[:max_methods] turned into records
Methods(analysis, max_methods) ==
    [engine |-> analysis.engine, derived |-> analysis.derived,
     value |-> MethodRecords(PyPrefix(SortDesc(analysis.value.category_spread),
                                      max_methods))]

\* generate_methods(max_methods)
generate_methods(e, max_methods) == Methods(analyze_sessions(e), max_methods)

----------------------------------------------------------------------------
(* The state machine: a caller constructing engines and calling them *)

Limits == -1..MaxLimit          \* max_archetypes, max_methods
Counts == 0..MaxCount           \* count
TurnsArgs == 0..MaxTurnsArg     \* max_turns

Init ==
    /\ defaultFile \in DefaultFiles
    /\ engine = NoEngine
    /\ twin = NoEngine
    /\ arg = NoCorpus
    /\ derivations = 0
    /\ ret = [op |-> "none", raised |-> "none"]
    /\ server = NotServing

\* What a constructor call leaves: a constructor that raises leaves the
\* caller's engine as it was
Constructed(made, again, corpus, seed) ==
    /\ ret' = [op |-> "__init__", raised |-> made.raised, corpus |-> corpus,
               seed |-> seed, read_default |-> made.read_default]
    /\ IF made.raised = "none"
       THEN /\ engine' = made.engine
            /\ twin' = again.engine
            /\ arg' = corpus
            /\ derivations' = 0
       ELSE UNCHANGED <<engine, twin, arg, derivations>>
    /\ UNCHANGED <<defaultFile, server>>

\* engine = SyntheticResearchEngine(corpus, seed), and a second instance
\* built with the same arguments
Construct(corpus, seed) ==
    Constructed(NewEngine(corpus, seed, defaultFile),
                NewEngine(corpus, seed, defaultFile), corpus, seed)

\* What a call on the analytics path leaves; the derivation counter stops
\* the model at MaxDerivations
Returned(got, call) ==
    /\ got.derived => derivations < MaxDerivations
    /\ engine' = got.engine
    /\ derivations' = IF got.derived THEN derivations + 1 ELSE derivations
    /\ ret' = [call EXCEPT !.value = got.value]
    /\ UNCHANGED <<defaultFile, twin, arg, server>>

GenerateArchetypes(max_archetypes) ==
    /\ engine.live
    /\ Returned(generate_archetypes(engine, max_archetypes),
                [op |-> "generate_archetypes", raised |-> "none",
                 max_archetypes |-> max_archetypes, value |-> <<>>,
                 cold |-> engine.profiles = <<>>])

AnalyzeSessions ==
    /\ engine.live
    /\ Returned(analyze_sessions(engine),
                [op |-> "analyze_sessions", raised |-> "none", value |-> <<>>,
                 cold |-> engine.profiles = <<>>])

GenerateMethods(max_methods) ==
    /\ engine.live
    /\ Returned(generate_methods(engine, max_methods),
                [op |-> "generate_methods", raised |-> "none",
                 max_methods |-> max_methods, value |-> <<>>,
                 cold |-> engine.profiles = <<>>])

\* Variant: one generator shared by every instance
SharedRandom(instance, other) == other.random

\* self.random: the generator an instance draws from is its own
OwnRandom(instance, other) == instance.random

Sampled(got, other, count, max_turns) ==
    /\ engine' = got.engine
    /\ twin' = other.engine
    /\ ret' = [op |-> "simulate_sessions", raised |-> got.raised,
               count |-> count, max_turns |-> max_turns,
               value |-> got.value,
               session_draws |-> got.session_draws,
               offset_draws |-> got.offset_draws,
               skipped |-> got.skipped,
               twin_raised |-> other.raised, twin_value |-> other.value]
    /\ UNCHANGED <<defaultFile, arg, derivations, server>>

\* The twin's call, made after the engine's
TwinCall(got, count, max_turns) ==
    simulate_sessions([twin EXCEPT !.random = OwnRandom(twin, got.engine)],
                      count, max_turns)

\* The same call on the engine and then on its twin
SimulateSessions(count, max_turns) ==
    /\ engine.live
    /\ Sampled(simulate_sessions(engine, count, max_turns),
               TwinCall(simulate_sessions(engine, count, max_turns), count, max_turns),
               count, max_turns)

Next ==
    \/ \E corpus \in InjectedCorpora \cup {NoCorpus}, seed \in Seeds : Construct(corpus, seed)
    \/ \E k \in Limits : GenerateArchetypes(k)
    \/ \E count \in Counts, max_turns \in TurnsArgs : SimulateSessions(count, max_turns)
    \/ AnalyzeSessions
    \/ \E k \in Limits : GenerateMethods(k)

Spec == Init /\ [][Next]_vars

----------------------------------------------------------------------------
(* A second state machine: any of the payloads at GROUND_TRUTH_PATH, a     *)
(* caller that loads it, builds an engine over it and reads the analytics  *)

InitFiles ==
    /\ defaultFile \in WideFiles
    /\ engine = NoEngine
    /\ twin = NoEngine
    /\ arg = NoCorpus
    /\ derivations = 0
    /\ ret = [op |-> "none", raised |-> "none"]
    /\ server = NotServing

\* What corpus = GroundTruthCorpus() leaves with the caller
LoadedDefault(made) ==
    /\ ret' = IF made.raised = "none"
              THEN [op |-> "GroundTruthCorpus", raised |-> "none",
                    message |-> made.message, corpus |-> made.corpus]
              ELSE [op |-> "GroundTruthCorpus", raised |-> made.raised,
                    message |-> made.message]
    /\ UNCHANGED <<defaultFile, engine, twin, arg, derivations, server>>

LoadDefault == LoadedDefault(Load(GROUND_TRUTH_PATH, defaultFile))

\* The corpus the caller holds, if the last call loaded one
HeldCorpora ==
    IF ret.op = "GroundTruthCorpus" /\ ret.raised = "none" THEN {ret.corpus} ELSE {}

\* The names _suggest_moves_for_category may be asked about: the
\* taxonomy's, "general", and one the table does not list
AskedCategories == Range(CategoryOrder) \cup {"general", "health"}

\* engine._suggest_moves_for_category(category)
SuggestMoves(category) ==
    /\ engine.live
    /\ ret' = [op |-> "_suggest_moves_for_category", raised |-> "none",
               category |-> category, value |-> suggest_moves_for_category(category)]
    /\ UNCHANGED <<defaultFile, engine, twin, arg, derivations, server>>

NextFiles ==
    \/ LoadDefault
    \/ \E corpus \in HeldCorpora \cup {NoCorpus} : Construct(corpus, DefaultSeed)
    \/ \E k \in Limits : GenerateArchetypes(k)
    \/ AnalyzeSessions
    \/ \E k \in Limits : GenerateMethods(k)
    \/ \E category \in AskedCategories : SuggestMoves(category)

SpecFiles == InitFiles /\ [][NextFiles]_vars

----------------------------------------------------------------------------
(* Properties *)

AnalyticsOps == {"generate_archetypes", "analyze_sessions", "generate_methods"}
EngineOps == AnalyticsOps \cup {"simulate_sessions"}

\* The sessions of the engine's corpus that have at least one turn
WithTurns == SelectSeq(engine.corpus.sessions, LAMBDA s : Len(s.turns) >= 1)

\* The full profile list of the engine's corpus
FullList == [i \in 1..Len(WithTurns) |-> ProfileOf[WithTurns[i]]]

RECURSIVE RandomSteps(_, _)
RandomSteps(r, n) == IF n = 0 THEN r ELSE RandomSteps(RandomNext(r), n - 1)

\* C1: within one engine instance the profile derivation runs at most once,
\* for every corpus; every later call is served from the cache.
C1_DerivedAtMostOnce == derivations <= 1

\* C2: the cache is cold or warm, and warm is absorbing within an instance:
\* once the cache holds profiles every call leaves the cached list
\* identical; only a new engine yields a cold cache.
C2_WarmIsAbsorbing ==
    /\ [](engine.live => engine.profiles \in {<<>>, FullList})
    /\ [][(engine.live /\ engine.profiles # <<>>) =>
            IF ret'.op = "__init__" /\ ret'.raised = "none"
            THEN engine'.profiles = <<>>
            ELSE engine'.profiles = engine.profiles]_vars

C2_Witness ==
    /\ engine.live
    /\ Len(engine.profiles) = 2
    /\ ret.op = "generate_archetypes"
    /\ ret.max_archetypes = 1
    /\ ~ret.cold

\* C3 as stated: for every integer k, generate_archetypes(k) returns at
\* most k profiles, on the cold call and on every warm call.
C3_AtMostK ==
    ret.op = "generate_archetypes" => Len(ret.value) <= ret.max_archetypes

\* C3 amended: for every k >= 0 generate_archetypes(k) returns at most k
\* profiles (the first min(k, n) of the n profiles), cold or warm; for
\* k < 0 it returns the first max(0, n + k) profiles.
C3_AtMostKFromZero ==
    ret.op = "generate_archetypes" =>
        /\ ret.max_archetypes >= 0 =>
              /\ Len(ret.value) <= ret.max_archetypes
              /\ Len(ret.value) = Min(ret.max_archetypes, Len(FullList))
        /\ ret.max_archetypes < 0 =>
              Len(ret.value) = Max(0, Len(FullList) + ret.max_archetypes)

C3_Witness ==
    /\ ret.op = "generate_archetypes"
    /\ ret.cold
    /\ ret.max_archetypes = 1
    /\ Len(FullList) = 2
    /\ Len(ret.value) = 1

\* C4: the cache populated by a first call generate_archetypes(k) holds the
\* full ordered list: for 0 <= k <= k', in any call order,
\* generate_archetypes(k) is the first min(k, n) entries of the full list
\* and a prefix of generate_archetypes(k').
C4_PrefixOfFullList ==
    (ret.op = "generate_archetypes" /\ ret.max_archetypes >= 0) =>
        /\ engine.profiles = FullList
        /\ ret.value = SubSeq(FullList, 1, Min(ret.max_archetypes, Len(FullList)))
        /\ \A k \in 0..MaxLimit :
              LET later == generate_archetypes(engine, k).value
              IN  IF k >= ret.max_archetypes
                  THEN IsPrefix(ret.value, later)
                  ELSE IsPrefix(later, ret.value)

C4_Witness ==
    /\ ret.op = "generate_archetypes"
    /\ ~ret.cold
    /\ ret.max_archetypes = 2
    /\ Len(ret.value) = 2
    /\ ret.value[1] # ret.value[2]

\* C5: a session with zero stored turns never produces a profile: the full
\* profile list has exactly one profile for each session with at least one
\* turn, in corpus order, with that session's session_id.
C5_OneProfilePerSessionWithTurns ==
    (engine.live /\ ret.op \in AnalyticsOps) =>
        /\ Len(engine.profiles) = Len(WithTurns)
        /\ \A i \in 1..Len(WithTurns) :
              engine.profiles[i].session_id = WithTurns[i].session_id
        /\ ret.op = "generate_archetypes" =>
              \A i \in 1..Len(ret.value) :
                  \E j \in 1..Len(WithTurns) :
                      ret.value[i].session_id = WithTurns[j].session_id

C5_Witness ==
    /\ engine.live
    /\ ret.op = "generate_archetypes"
    /\ Len(engine.corpus.sessions) = 2
    /\ engine.corpus.sessions[1].turns = <<>>
    /\ Len(ret.value) = 1
    /\ ret.value[1].session_id = engine.corpus.sessions[2].session_id

\* C6: an engine built by passing it a loaded corpus with zero sessions is
\* constructed, and its analyze_sessions returns zeros and empty
\* collections, its generate_archetypes and generate_methods empty lists.
C6_EmptyCorpusDegrades ==
    /\ (ret.op = "__init__" /\ ret.corpus.live /\ CorpusLen(ret.corpus) = 0) =>
          ret.raised = "none"
    /\ (engine.live /\ arg.live /\ CorpusLen(arg) = 0) =>
          /\ ret.op = "analyze_sessions" =>
                ret.value = [total_sessions |-> 0, total_turns |-> 0,
                             avg_turns_per_session |-> 0, token_estimate |-> 0,
                             top_keywords |-> <<>>, category_spread |-> <<>>]
          /\ ret.op \in {"generate_archetypes", "generate_methods"} =>
                ret.value = <<>>

\* C7: the engine's corpus is the injected one for the engine's lifetime:
\* whenever a corpus object is passed to the constructor, whatever it
\* holds, engine.corpus is that object and the default file is not read.
C7_CorpusIsInjected ==
    /\ (ret.op = "__init__" /\ ret.corpus.live) => ~ret.read_default
    /\ (engine.live /\ arg.live) => engine.corpus = arg

\* C8: after construction no engine operation raises for data reasons;
\* simulate_sessions with count >= 1 on a corpus with zero sessions
\* returns an empty list.
C8_NoOperationRaises ==
    ret.op \in EngineOps =>
        /\ ret.raised = "none"
        /\ (ret.op = "simulate_sessions" /\ CorpusLen(engine.corpus) = 0) =>
              ret.value = <<>>

\* C9: two engine instances built with the same seed over the same corpus,
\* given the same simulate_sessions calls, return the same segments call
\* by call.
C9_SamplingReproducible ==
    ret.op = "simulate_sessions" =>
        /\ ret.twin_raised = ret.raised
        /\ ret.twin_value = ret.value

C9_Witness ==
    /\ ret.op = "simulate_sessions"
    /\ ret.count = 2
    /\ Len(ret.value) = 2
    /\ ret.value[1] # ret.value[2]
    /\ ret.twin_value = ret.value
    /\ engine.profiles # twin.profiles

\* C10: on a non-empty corpus simulate_sessions(count, max_turns) makes
\* exactly count session draws and returns count minus the number of draws
\* that picked a session without turns; such a draw emits nothing and
\* consumes no start-offset draw, so the generator advances once per draw
\* and once more per segment emitted.
C10_DrawsAndSegments ==
    /\ []((ret.op = "simulate_sessions" /\ CorpusLen(engine.corpus) > 0) =>
            /\ ret.raised = "none"
            /\ ret.session_draws = ret.count
            /\ Len(ret.value) = ret.count - ret.skipped
            /\ Len(ret.value) <= ret.count
            /\ ret.offset_draws = Len(ret.value))
    /\ [][(ret'.op = "simulate_sessions" /\ CorpusLen(engine'.corpus) > 0) =>
            engine'.random = RandomSteps(engine.random, ret'.count + Len(ret'.value))]_vars

C10_Witness ==
    /\ ret.op = "simulate_sessions"
    /\ CorpusLen(engine.corpus) > 0
    /\ ret.count = 2
    /\ ret.skipped = 1
    /\ Len(ret.value) = 1

\* C11: for max_turns >= 1 every segment simulate_sessions emits is a
\* contiguous, order-preserving run of the turns of one corpus session,
\* starting at an offset in 0..max(0, len(turns) - max_turns) and holding
\* exactly min(max_turns, len(turns)) turns: never empty, never past the
\* session's end.
C11_SegmentsAreSlices ==
    (ret.op = "simulate_sessions" /\ ret.raised = "none" /\ ret.max_turns >= 1) =>
        \A i \in 1..Len(ret.value) :
            /\ ret.value[i] # <<>>
            /\ \E j \in 1..Len(engine.corpus.sessions) :
                   \E start \in 0..Max(0, Len(engine.corpus.sessions[j].turns) - ret.max_turns) :
                       /\ Len(ret.value[i])
                            = Min(ret.max_turns, Len(engine.corpus.sessions[j].turns))
                       /\ start + Len(ret.value[i]) <= Len(engine.corpus.sessions[j].turns)
                       /\ \A n \in 1..Len(ret.value[i]) :
                              ret.value[i][n] = engine.corpus.sessions[j].turns[start + n]

C11_Witness ==
    /\ ret.op = "simulate_sessions"
    /\ ret.max_turns = 2
    /\ \E i \in 1..Len(ret.value) :
           ret.value[i] = SubSeq(SessionJob.turns, 2, 3)
    /\ \E i \in 1..Len(ret.value) :
           Len(ret.value[i]) = 2 /\ ret.value[i] = SessionMoney.turns

\* The tokens of a session's user turns, in the order they are spoken
RECURSIVE TokensOf(_)
TokensOf(turns) ==
    IF turns = <<>> THEN <<>>
    ELSE simple_tokenize(Head(turns).text) \o TokensOf(Tail(turns))

\* Computed once for every session the model can hold
UserTokens == [s \in SessionUniverse |-> TokensOf(SelectSeq(s.turns, is_user))]

\* How often a token is spoken, and where first
Occurrences(tokens, token) == Cardinality({n \in 1..Len(tokens) : tokens[n] = token})

FirstAt(tokens, token) ==
    CHOOSE n \in 1..Len(tokens) :
        tokens[n] = token /\ \A m \in 1..(n - 1) : tokens[m] # token

Categories == Range(CategoryOrder)

\* A category's weight: the user-turn occurrences of the keywords that
\* equal one of its triggers
Weight ==
    [s \in SessionUniverse |->
        [c \in Categories |->
            Cardinality({n \in 1..Len(UserTokens[s]) :
                            /\ Len(UserTokens[s][n]) > 3
                            /\ UserTokens[s][n] \in CATEGORY_KEYWORDS[c]})]]

\* The cached profiles pair up with the sessions that have turns
Paired == Len(engine.profiles) \in {0, Len(WithTurns)}

OnlyPricing(tokens) ==
    /\ \E n \in 1..Len(tokens) : tokens[n] = "pricing"
    /\ \A n \in 1..Len(tokens) : Len(tokens[n]) > 3 => tokens[n] = "pricing"

DominantAsClaimed(dominant, weight, tokens) ==
    /\ (dominant = <<"general">>) <=> (\A c \in Categories : weight[c] = 0)
    /\ dominant # <<"general">> =>
          /\ Len(dominant) \in 1..3
          /\ \A i \in 1..Len(dominant) :
                /\ dominant[i] \in Categories
                /\ weight[dominant[i]] > 0
                /\ \A j \in 1..Len(dominant) :
                      /\ (i # j => dominant[i] # dominant[j])
                      /\ (i < j => weight[dominant[i]] >= weight[dominant[j]])
    /\ OnlyPricing(tokens) => dominant = <<"money">>

\* C12: dominant_categories is exactly ["general"] if and only if no
\* session keyword equals a taxonomy trigger, and otherwise 1 to 3 distinct
\* category names, each of nonzero weight, in non-increasing weight order,
\* the weight being the summed user-turn frequency of the keywords equal
\* to one of the category's triggers; "pricing" alone yields ["money"].
C12_DominantCategories ==
    engine.live =>
        /\ Paired
        /\ \A i \in 1..Len(engine.profiles) :
              DominantAsClaimed(engine.profiles[i].dominant_categories,
                                Weight[WithTurns[i]], UserTokens[WithTurns[i]])

C12_Witness ==
    /\ engine.live
    /\ Len(engine.profiles) = 2
    /\ Weight[WithTurns[1]]["creative"] = 2
    /\ Weight[WithTurns[1]]["movement"] = 1
    /\ engine.profiles[1].dominant_categories = <<"money", "career", "location">>
    /\ engine.profiles[2].dominant_categories = <<"money">>

\* token a is ranked before token b: spoken more often, or as often and
\* spoken first
RankedBefore(tokens, a, b) ==
    \/ Occurrences(tokens, a) > Occurrences(tokens, b)
    \/ /\ Occurrences(tokens, a) = Occurrences(tokens, b)
       /\ FirstAt(tokens, a) < FirstAt(tokens, b)

TopKeywordsAsClaimed(top, tokens) ==
    /\ Len(top) <= 8
    /\ \A i \in 1..Len(top) :
          /\ Len(top[i]) > 3
          /\ top[i] \in Range(tokens)
          /\ \A j \in 1..Len(top) : i < j => RankedBefore(tokens, top[i], top[j])
    /\ \A t \in Range(tokens) :
          (Len(t) > 3 /\ t \notin Range(top)) =>
              /\ Len(top) = 8
              /\ RankedBefore(tokens, top[8], t)

\* C13: top_keywords holds at most 8 distinct tokens, each longer than 3
\* characters and each spoken in a user turn of the session, in
\* non-increasing order of their frequency over the user turns, tokens of
\* equal frequency in the order first met; it is the first 8 entries of
\* the session's full ranking.
C13_TopKeywords ==
    engine.live =>
        /\ Paired
        /\ \A i \in 1..Len(engine.profiles) :
              TopKeywordsAsClaimed(engine.profiles[i].top_keywords,
                                   UserTokens[WithTurns[i]])

C13_Witness ==
    /\ engine.live
    /\ Len(engine.profiles) = 1
    /\ engine.profiles[1].top_keywords
         = <<"pricing", "income", "music", "city", "work", "dance", "healing", "costs">>
    /\ "money" \in Range(UserTokens[WithTurns[1]])
    /\ \E n \in 1..Len(WithTurns[1].turns) :
          /\ ~is_user(WithTurns[1].turns[n])
          /\ "consulting" \in Range(simple_tokenize(WithTurns[1].turns[n].text))

Solid(text) == SelectSeq(text, LAMBDA ch : ch \notin Whitespace)

\* The words of a text end where a character that is not whitespace is
\* followed by whitespace or by nothing
WordEnds(text, upto) ==
    {m \in 1..upto : text[m] \notin Whitespace
                       /\ (m = Len(text) \/ text[m + 1] \in Whitespace)}

\* Where the n-th character of text stands once every run of whitespace
\* before it is one space and none leads
PlaceOf(text, n) ==
    Len(Solid(SubSeq(text, 1, n))) + Cardinality(WordEnds(text, n - 1))

\* line is text with every run of whitespace between words turned into
\* one space and none left at either end
IsNormalized(line, text) ==
    /\ Len(line) = Len(Solid(text)) + Cardinality(WordEnds(text, Len(text))) - 1
    /\ \A n \in 1..Len(text) :
          text[n] \notin Whitespace => line[PlaceOf(text, n)] = text[n]
    /\ \A n \in 1..Len(line) : line[n] \in Whitespace => line[n] = " "
    /\ Len(Solid(line)) = Len(Solid(text))

\* The user turns that say something, and the lines kept of them
Speaking(turns) == SelectSeq(turns, LAMBDA t : Solid(t.text) # <<>>)

LinesAsClaimed(lines, turns) ==
    /\ Len(lines) = Min(3, Len(Speaking(turns)))
    /\ \A n \in 1..Len(lines) :
          /\ lines[n] # <<>>
          /\ IsNormalized(lines[n], Speaking(turns)[n].text)

\* C14: representative_user_lines is the whitespace-normalized text of the
\* first (up to 3) user turns whose normalized text is non-empty, in turn
\* order: at most 3 entries, none empty, and a user turn of whitespace
\* only is skipped without using up a slot.
C14_RepresentativeLines ==
    engine.live =>
        /\ Paired
        /\ \A i \in 1..Len(engine.profiles) :
              LinesAsClaimed(engine.profiles[i].representative_user_lines,
                             SelectSeq(WithTurns[i].turns, is_user))

C14_Witness ==
    /\ engine.live
    /\ Len(engine.profiles) = 1
    /\ Len(SelectSeq(WithTurns[1].turns, is_user)) = 5
    /\ SelectSeq(WithTurns[1].turns, is_user)[2].text = TextBlank
    /\ Len(engine.profiles[1].representative_user_lines) = 3
    /\ engine.profiles[1].representative_user_lines[2] # TextMusic
    /\ Solid(engine.profiles[1].representative_user_lines[3]) = Solid(TextDance)

\* The turn entries of a session entry that carry a non-empty text
SaysSomething(entry) ==
    /\ entry.json = "object"
    /\ "text" \in DOMAIN entry
    /\ Len(entry.text) >= 1

InputTurns(item) ==
    SelectSeq(IF "turns" \in DOMAIN item THEN item.turns ELSE <<>>, SaysSomething)

\* Every stored turn of a corpus, as session index and turn index
StoredTurns(corpus) ==
    UNION {{<<i, n>> : n \in 1..Len(corpus.sessions[i].turns)} :
              i \in 1..Len(corpus.sessions)}

LoadedAsClaimed(corpus, items) ==
    /\ Len(corpus.sessions) = Len(items)
    /\ \A i \in 1..Len(items) :
          /\ Len(corpus.sessions[i].turns) = Len(InputTurns(items[i]))
          /\ \A n \in 1..Len(corpus.sessions[i].turns) :
                /\ corpus.sessions[i].turns[n].text # <<>>
                /\ corpus.sessions[i].turns[n].text = InputTurns(items[i])[n].text
                /\ corpus.sessions[i].turns[n].speaker = InputTurns(items[i])[n].speaker
    /\ total_turns(corpus) = Cardinality(StoredTurns(corpus))

\* C15: in every successfully loaded corpus no stored turn has empty text,
\* the stored turns of each session are the input turns with non-empty
\* text in their original order, and total_turns() is the number of
\* stored turns summed over the sessions.
C15_StoredTurns ==
    /\ (ret.op = "GroundTruthCorpus" /\ ret.raised = "none") =>
          LoadedAsClaimed(ret.corpus, defaultFile.raw.sessions.items)
    /\ (engine.live /\ ret.op = "analyze_sessions") =>
          ret.value.total_turns = Cardinality(StoredTurns(engine.corpus))

C15_Witness ==
    /\ ret.op = "GroundTruthCorpus"
    /\ ret.raised = "none"
    /\ Len(ret.corpus.sessions) = 1
    /\ Len(defaultFile.raw.sessions.items[1].turns) = 2
    /\ defaultFile.raw.sessions.items[1].turns[1] = RawTurn(UserSpeaker, <<>>)
    /\ ret.corpus.sessions[1].turns = <<Turn(UserSpeaker, TextWork)>>
    /\ total_turns(ret.corpus) = 1

\* The payload has no top-level `sessions` list
LacksSessionsList(file) ==
    file.exists /\ ("sessions" \notin DOMAIN file.raw \/ file.raw.sessions.json # "array")

ConstructionCalls ==
    ret.op = "GroundTruthCorpus" \/ (ret.op = "__init__" /\ ret.read_default)

BreaksSchema(item) ==
    \/ item.json # "object"
    \/ \E n \in 1..Len(InputTurns(item)) : "speaker" \notin DOMAIN InputTurns(item)[n]

\* C17: corpus construction ends in success, the missing-source error or
\* the malformed-source error and in nothing else; over a payload whose
\* `sessions` is a list, turn entries without text are skipped silently
\* and a session entry that is not a record, or a turn entry with text
\* and no speaker, is reported as malformed-source.
C17_ThreeOutcomes ==
    ret.op = "GroundTruthCorpus" =>
        /\ ret.raised \in {"none", "FileNotFoundError", "ValueError"}
        /\ (defaultFile.exists /\ ~LacksSessionsList(defaultFile)) =>
              IF \E i \in 1..Len(defaultFile.raw.sessions.items) :
                     BreaksSchema(defaultFile.raw.sessions.items[i])
              THEN ret.raised = "ValueError"
              ELSE ret.raised = "none"

\* The count category_spread gives a category, 0 when it has no entry
SpreadOf(spread, category) ==
    SumSeq([n \in 1..Len(spread) |-> IF spread[n][1] = category THEN spread[n][2] ELSE 0])

\* The profiles of the full list that name the category
Naming(category) ==
    {i \in 1..Len(FullList) : category \in Range(FullList[i].dominant_categories)}

SpreadAsClaimed(spread) ==
    /\ \A c \in Categories \cup {"general"} : SpreadOf(spread, c) = Cardinality(Naming(c))
    /\ \A n \in 1..Len(spread) :
          /\ spread[n][1] \in Categories \cup {"general"}
          /\ spread[n][2] >= 1
          /\ spread[n][2] <= Len(FullList)
          /\ \A m \in 1..Len(spread) : m # n => spread[m][1] # spread[n][1]
    /\ SumSeq([n \in 1..Len(spread) |-> spread[n][2]])
         = SumSeq([i \in 1..Len(FullList) |-> Len(FullList[i].dominant_categories)])

\* C18: category_spread of analyze_sessions counts every profile of the
\* full list, never a truncated prefix: a category's count is the number
\* of profiles naming it among their dominant categories, so the counts
\* sum to the total length of the dominant_categories lists and none
\* exceeds the number of profiles.
C18_CategorySpread ==
    (engine.live /\ ret.op = "analyze_sessions") =>
        SpreadAsClaimed(ret.value.category_spread)

C18_Witness ==
    /\ engine.live
    /\ ret.op = "analyze_sessions"
    /\ ~ret.cold
    /\ Len(FullList) = 2
    /\ ret.value.category_spread = <<<<"money", 2>>, <<"career", 1>>, <<"location", 1>>>>

\* How often the sessions of a corpus speak a token in their user turns
CorpusCount(corpus, token) ==
    SumSeq([i \in 1..Len(corpus.sessions) |->
               Occurrences(UserTokens[corpus.sessions[i]], token)])

CorpusKeywords(corpus) ==
    {t \in UNION {Range(UserTokens[corpus.sessions[i]]) : i \in 1..Len(corpus.sessions)} :
        Len(t) > 3}

KeywordCountsAsClaimed(top, corpus) ==
    /\ Len(top) <= 12
    /\ \A n \in 1..Len(top) :
          /\ top[n][1] \in CorpusKeywords(corpus)
          /\ top[n][2] = CorpusCount(corpus, top[n][1])
          /\ \A m \in 1..Len(top) :
                /\ (m # n => top[m][1] # top[n][1])
                /\ (n < m => top[n][2] >= top[m][2])
    /\ \A t \in CorpusKeywords(corpus) :
          t \notin {top[n][1] : n \in 1..Len(top)} =>
              /\ Len(top) = 12
              /\ CorpusCount(corpus, t) <= top[12][2]

\* C19: top_keywords of analyze_sessions is the at most 12 (keyword, count)
\* pairs of highest corpus-wide count, in non-increasing count order, a
\* keyword's count being the sum over all sessions of its full user-turn
\* frequency in the session: a keyword outside a session's 8 profile
\* keywords still contributes its frequency.
C19_CorpusKeywords ==
    (engine.live /\ ret.op = "analyze_sessions") =>
        KeywordCountsAsClaimed(ret.value.top_keywords, engine.corpus)

C19_Witness ==
    /\ engine.live
    /\ ret.op = "analyze_sessions"
    /\ Len(FullList) = 2
    /\ Len(ret.value.top_keywords) = 12
    /\ ret.value.top_keywords[1] = <<"pricing", 3>>
    /\ <<"money", 1>> \in Range(ret.value.top_keywords)
    /\ "money" \notin Range(FullList[1].top_keywords) \cup Range(FullList[2].top_keywords)
    /\ "later" \in CorpusKeywords(engine.corpus)

\* The engine as it is right after construction
Cold(e) == [e EXCEPT !.profiles = <<>>]

\* C20: with the corpus unchanged analyze_sessions returns the same record
\* on every call, whether the engine is cold or warm, however often it
\* was called before and whatever max_archetypes earlier
\* generate_archetypes calls used.
C20_AnalysisIsStable ==
    engine.live =>
        /\ analyze_sessions(engine).value = analyze_sessions(Cold(engine)).value
        /\ ret.op = "analyze_sessions" => ret.value = analyze_sessions(Cold(engine)).value

C20_Witness ==
    /\ engine.live
    /\ ret.op = "analyze_sessions"
    /\ ~ret.cold
    /\ Len(engine.profiles) = 2
    /\ ret.value.total_sessions = 2
    /\ ret.value = analyze_sessions(Cold(engine)).value
    /\ Len(ret.value.category_spread) >= 2

\* name.title() followed by " Thread", name by name
ThreadName ==
    [money |-> "Money Thread", career |-> "Career Thread",
     location |-> "Location Thread", care |-> "Care Thread",
     creative |-> "Creative Thread", movement |-> "Movement Thread",
     general |-> "General Thread"]

\* The categories category_spread has an entry for
Spread == {c \in Categories \cup {"general"} : Naming(c) # {}}

MethodsAsClaimed(methods, max_methods) ==
    /\ Len(methods) = Min(max_methods, Cardinality(Spread))
    /\ \A i \in 1..Len(methods) :
          /\ methods[i].focus \in Spread
          /\ methods[i].evidence
               = ToString(Cardinality(Naming(methods[i].focus)))
                   \o " mentions across ground-truth sessions"
          /\ methods[i].method = ThreadName[methods[i].focus]
          /\ \A j \in 1..Len(methods) :
                /\ (i # j => methods[i].focus # methods[j].focus)
                /\ (i < j => Cardinality(Naming(methods[i].focus))
                               >= Cardinality(Naming(methods[j].focus)))

\* C21: for max_methods >= 0 generate_methods returns min(max_methods,
\* number of categories in category_spread) records of pairwise distinct
\* focus, in non-increasing order of mention count; evidence carries the
\* category_spread count of the focus and method is the title-cased focus
\* followed by " Thread".
C21_MethodRecords ==
    (engine.live /\ ret.op = "generate_methods" /\ ret.max_methods >= 0) =>
        MethodsAsClaimed(ret.value, ret.max_methods)

C21_Witness ==
    /\ engine.live
    /\ ret.op = "generate_methods"
    /\ ret.max_methods = 2
    /\ Cardinality(Spread) = 3
    /\ Len(ret.value) = 2
    /\ ret.value[1].focus = "money"
    /\ ret.value[1].evidence = "2 mentions across ground-truth sessions"
    /\ ret.value[2].method = "Career Thread"
    /\ FullList[1].dominant_categories = <<"career", "location">>

GeneralMoves ==
    <<"Stay slow; mirror back phrasing instead of inventing agendas.",
      "Track relationship depth to modulate question frequency.">>

MovesAsClaimed(category, moves) ==
    /\ category \in DOMAIN Suggestions => moves = Suggestions[category]
    /\ category \notin DOMAIN Suggestions => moves = GeneralMoves

\* C22: generate_methods never raises over a category that the suggestion
\* table does not list: the suggested_moves of such a category is the
\* "general" list, and that of a listed category is its own entry.
C22_FallsBackToGeneral ==
    /\ ret.op \in {"generate_methods", "_suggest_moves_for_category"} =>
          ret.raised = "none"
    /\ ret.op = "generate_methods" =>
          \A i \in 1..Len(ret.value) :
              MovesAsClaimed(ret.value[i].focus, ret.value[i].suggested_moves)
    /\ ret.op = "_suggest_moves_for_category" =>
          MovesAsClaimed(ret.category, ret.value)

C22_Witness ==
    /\ ret.op = "_suggest_moves_for_category"
    /\ ret.category \notin DOMAIN Suggestions
    /\ ret.raised = "none"
    /\ ret.value = Suggestions["general"]

\* The engine built over the same corpus with another seed
Reseeded(e) == [Cold(e) EXCEPT !.random = RandomNext(e.random)]

\* C26: generate_archetypes, analyze_sessions and generate_methods never
\* advance the seeded generator: an engine given analytics calls between
\* its simulate_sessions calls stays in step with a twin given the
\* simulate_sessions calls alone, and what the analytics return is the
\* same for another seed.
C26_AnalyticsUseNoRandomness ==
    engine.live =>
        /\ engine.random = twin.random
        /\ ret.op = "simulate_sessions" => ret.twin_value = ret.value
        /\ ret.op = "generate_archetypes" =>
              ret.value = generate_archetypes(Reseeded(engine), ret.max_archetypes).value
        /\ ret.op = "analyze_sessions" =>
              ret.value = analyze_sessions(Reseeded(engine)).value
        /\ ret.op = "generate_methods" =>
              ret.value = generate_methods(Reseeded(engine), ret.max_methods).value

C26_Witness ==
    /\ engine.live
    /\ ret.op = "simulate_sessions"
    /\ engine.profiles # <<>>
    /\ twin.profiles = <<>>
    /\ engine.random # RandomSeeded(DefaultSeed)
    /\ engine.random = twin.random
    /\ Len(ret.value) >= 1
    /\ ret.twin_value = ret.value

\* Every character a session stores, as turn index and position
Characters(session) ==
    UNION {{<<n, k>> : k \in 1..Len(session.turns[n].text)} : n \in 1..Len(session.turns)}

\* estimate is the number of characters divided by 4, rounded down
IsFloorOfQuarter(estimate, characters) ==
    4 * estimate <= characters /\ characters < 4 * estimate + 4

TokenEstimatesAsClaimed(corpus, analysis) ==
    /\ \A i \in 1..Len(corpus.sessions) :
          IsFloorOfQuarter(total_tokens_estimate(corpus.sessions[i]),
                           Cardinality(Characters(corpus.sessions[i])))
    /\ \A i \in 1..Len(WithTurns) :
          IsFloorOfQuarter(FullList[i].token_estimate, Cardinality(Characters(WithTurns[i])))
    /\ analysis.token_estimate = total_token_estimate(corpus)
    /\ analysis.token_estimate
         = SumSeq([i \in 1..Len(corpus.sessions) |->
                      total_tokens_estimate(corpus.sessions[i])])
    /\ analysis.token_estimate
         = SumSeq([i \in 1..Len(FullList) |-> FullList[i].token_estimate])

\* C27: a session's token estimate is the characters of its stored turns
\* divided by 4 and rounded down, a profile's token_estimate is that of
\* its session, and token_estimate of analyze_sessions is
\* total_token_estimate(): the sum of the per-session estimates, hence of
\* the token_estimate of the full profile list, not the corpus-wide
\* character total divided by 4.
C27_TokenEstimates ==
    (engine.live /\ ret.op = "analyze_sessions") =>
        /\ TokenEstimatesAsClaimed(engine.corpus, ret.value)
        /\ \A i \in 1..Len(engine.profiles) :
              engine.profiles[i].token_estimate = total_tokens_estimate(WithTurns[i])

C27_Witness ==
    /\ engine.live
    /\ ret.op = "analyze_sessions"
    /\ Len(engine.corpus.sessions) = 2
    /\ Len(engine.profiles) = 2
    /\ engine.profiles[1].token_estimate = 4
    /\ ret.value.token_estimate = 8
    /\ Cardinality(Characters(engine.corpus.sessions[1])) = 18
    /\ Cardinality(Characters(engine.corpus.sessions[2])) = 18

\* C28: generate_archetypes, analyze_sessions and generate_methods each
\* take a cold engine to warm, generate_archetypes(0) and
\* generate_methods(0) included: when the corpus has a session with a
\* turn, the first such call leaves the cache holding the full profile
\* list.  simulate_sessions neither reads nor writes the cache, so a cold
\* engine stays cold across simulate_sessions calls.
C28_ColdToWarm ==
    /\ []((engine.live /\ ret.op \in AnalyticsOps /\ ret.cold /\ WithTurns # <<>>) =>
             (engine.profiles # <<>> /\ engine.profiles = FullList))
    /\ []((engine.live /\ ret.op = "simulate_sessions") =>
             \A r \in {engine.random, twin.random} :
                simulate_sessions([engine EXCEPT !.random = r], ret.count, ret.max_turns).value
                  = simulate_sessions([Cold(engine) EXCEPT !.random = r],
                                      ret.count, ret.max_turns).value)
    /\ [][(engine.live /\ ret'.op = "simulate_sessions") =>
            engine'.profiles = engine.profiles]_vars

C28_Witness ==
    /\ engine.live
    /\ ret.op = "generate_methods"
    /\ ret.max_methods = 0
    /\ ret.cold
    /\ ret.value = <<>>
    /\ Len(engine.profiles) = 2
    /\ engine.random \notin {RandomSeeded(seed) : seed \in Seeds}

\* The taxonomy triggers of 3 characters or fewer
ShortTriggers ==
    {t \in UNION {CATEGORY_KEYWORDS[c] : c \in Categories} : Len(t) <= 3}

\* The user-turn tokens of a session that are triggers of a category
Mentions(session, c) == Range(UserTokens[session]) \cap CATEGORY_KEYWORDS[c]

ShortTokensAreInert(session, profile) ==
    /\ \A n \in 1..Len(KeywordsOf[session]) : Len(KeywordsOf[session][n][1]) > 3
    /\ \A n \in 1..Len(profile.top_keywords) :
          /\ Len(profile.top_keywords[n]) > 3
          /\ profile.top_keywords[n] \notin {"job", "art"}
    /\ \A n \in 1..Len(profile.dominant_categories) :
          \/ profile.dominant_categories[n] = "general"
          \/ Mentions(session, profile.dominant_categories[n]) \ {"job", "art"} # {}
    /\ (\A c \in Categories : Mentions(session, c) \subseteq {"job", "art"}) =>
          profile.dominant_categories = <<"general">>

\* C29: a token of 3 characters or fewer never becomes a session keyword
\* and adds weight to no category: "job" and "art", the triggers that
\* short, never produce a category hit, and a session whose user turns
\* mention no other trigger is profiled as ["general"].
C29_ShortTokensNeverCount ==
    /\ ShortTriggers = {"job", "art"}
    /\ engine.live =>
          /\ Paired
          /\ \A i \in 1..Len(engine.profiles) :
                ShortTokensAreInert(WithTurns[i], engine.profiles[i])

C29_Witness ==
    /\ engine.live
    /\ ret.op = "generate_archetypes"
    /\ \E i \in 1..Len(engine.profiles) :
          /\ WithTurns[i] = SessionJob
          /\ "job" \in Mentions(SessionJob, "career")
          /\ engine.profiles[i].dominant_categories = <<"general">>
          /\ engine.profiles[i].top_keywords = <<>>

----------------------------------------------------------------------------
(* server.py: one module-level engine shared by the request handlers.      *)
(* app.run serves each request in a thread of its own, so a handler is a   *)
(* frame with a position, and engines are objects the frames refer to.     *)

MaxThreads == 2          \* requests handled at the same time
MaxEngines == 2          \* engines constructed while the server runs

ArchetypesLimit == 5     \* _safe_int(request.args.get('limit'), 5)
MethodsLimit == 4        \* _safe_int(request.args.get('limit'), 4)
HintsLimit == 2          \* _get_research_hints(user_message, limit=2)

Threads == 1..MaxThreads

\* research_engine = None; an engine is referred to by its place in objects
None == 0

Idle == [pc |-> "idle"]

\* The module after import: no engine yet, no request in progress
Serving ==
    [serving |-> TRUE,
     research_engine |-> None,
     objects |-> <<>>,
     runs |-> <<>>,
     threads |-> [t \in Threads |-> Idle]]

\* What GROUND_TRUTH_PATH may hold while the server runs: nothing, or a
\* transcript without turns followed by two with turns
FileTranscripts == FileOf(<<RawBare, RawWork, RawMoney>>)

ServerFiles == {FileMissing, FileTranscripts}

ResearchRoutes ==
    {"research_archetypes", "research_analytics", "research_methods",
     "research_reload", "_get_research_hints"}

\* The limit a request carries: the query parameter or the route's default
RequestLimits(route) ==
    CASE route = "research_archetypes" -> {ArchetypesLimit}
      [] route = "research_methods" -> {MethodsLimit}
      [] route = "_get_research_hints" -> {HintsLimit}
      [] OTHER -> {0}

\* separator.join(strings)
RECURSIVE JoinStrings(_, _)
JoinStrings(strings, separator) ==
    IF strings = <<>> THEN ""
    ELSE IF Len(strings) = 1 THEN Head(strings)
    ELSE Head(strings) \o separator \o JoinStrings(Tail(strings), separator)

\* The attributes of a dict object: its methods, never its keys
DictAttributes ==
    {"clear", "copy", "fromkeys", "get", "items", "keys", "pop", "popitem",
     "setdefault", "update", "values"}

\* Variant: the key is read by subscript, method["name"]
Subscript(dict, name) == [raised |-> "none", value |-> dict[name]]

\* method.name on a dict: a key is not an attribute
Attribute(dict, name) ==
    IF name \in DictAttributes
    THEN [raised |-> "none", value |-> <<"built-in method", name>>]
    ELSE [raised |-> "AttributeError"]

\* moves = "; ".join(method.suggested_moves[:2]); f"{method.method}: {moves}"
MethodLine(method) ==
    LET moves == Attribute(method, "suggested_moves")
        name == Attribute(method, "method")
    IN  IF moves.raised # "none" THEN [raised |-> moves.raised]
        ELSE IF name.raised # "none" THEN [raised |-> name.raised]
        ELSE [raised |-> "none",
              value |-> name.value \o ": " \o JoinStrings(PyPrefix(moves.value, 2), "; ")]

\* for method in methods[:limit]: method_lines.append(...)
RECURSIVE MethodLines(_, _)
MethodLines(lines, methods) ==
    IF methods = <<>> THEN [raised |-> "none", value |-> lines]
    ELSE IF MethodLine(Head(methods)).raised # "none"
    THEN [raised |-> MethodLine(Head(methods)).raised]
    ELSE MethodLines(Append(lines, MethodLine(Head(methods)).value), Tail(methods))

\* if archetypes: hints_parts.append(f"Archetype pattern: {keywords}")
ArchetypePart(archetypes) ==
    IF archetypes = <<>> THEN <<>>
    ELSE <<"Archetype pattern: "
             \o JoinStrings(PyPrefix(archetypes[1].top_keywords, 5), ", ")>>

\* if methods: hints_parts.append("Method hints: " + " | ".join(method_lines))
MethodsPart(hints_parts, methods, limit) ==
    LET method_lines == MethodLines(<<>>, PyPrefix(methods, limit))
    IN  IF methods = <<>> THEN [raised |-> "none", value |-> hints_parts]
        ELSE IF method_lines.raised # "none" THEN [raised |-> method_lines.raised]
        ELSE [raised |-> "none",
              value |-> Append(hints_parts,
                               "Method hints: " \o JoinStrings(method_lines.value, " | "))]

\* return "\n".join(hints_parts) if hints_parts else "", and "" from the
\* except clause
HintsText(hints_parts, methods, limit) ==
    LET parts == MethodsPart(hints_parts, methods, limit)
    IN  IF parts.raised # "none" THEN [raised |-> parts.raised, value |-> ""]
        ELSE [raised |-> "none", value |-> JoinStrings(parts.value, "\n")]

\* What the except clause of a route answers with
Failed(frame, raised) ==
    IF frame.route = "_get_research_hints"
    THEN [op |-> frame.route, raised |-> raised, value |-> ""]
    ELSE [op |-> frame.route, raised |-> raised, status |-> 500,
          value |-> [success |-> FALSE]]

\* What the route answers with when nothing was raised
Answered(frame, value) ==
    [op |-> frame.route, raised |-> "none", status |-> 200, self |-> frame.self,
     value |-> value]

\* Variant: a failed construction leaves the module without an engine
InstalledOrUnset(research_engine, made, fresh) ==
    IF made.raised = "none" THEN fresh ELSE None

\* research_engine = SyntheticResearchEngine(): the name is bound only
\* when the constructor returns
Installed(research_engine, made, fresh) ==
    IF made.raised = "none" THEN fresh ELSE research_engine

\* The module once SyntheticResearchEngine() has returned or raised
Built(made) ==
    IF made.raised = "none"
    THEN [server EXCEPT
             !.research_engine = Installed(@, made, Len(server.objects) + 1),
             !.objects = Append(@, made.engine),
             !.runs = Append(@, [derived |-> 0, written |-> 0])]
    ELSE [server EXCEPT
             !.research_engine = Installed(@, made, Len(server.objects) + 1)]

\* The frame of a handler entering generate_archetypes(max_archetypes) on
\* behalf of the engine method `call`
Entering(frame, self, call, max_archetypes) ==
    [pc |-> "generate_archetypes", route |-> frame.route, limit |-> frame.limit,
     self |-> self, call |-> call, max_archetypes |-> max_archetypes,
     profiles |-> <<>>, at |-> 1,
     hints_parts |-> IF "hints_parts" \in DOMAIN frame THEN frame.hints_parts ELSE <<>>]

\* The engine method a route calls first, down to its generate_archetypes
FirstCall(frame, self, corpus) ==
    CASE frame.route = "research_archetypes" ->
            Entering(frame, self, "generate_archetypes", frame.limit)
      [] frame.route = "research_analytics" ->
            Entering(frame, self, "analyze_sessions", CorpusLen(corpus))
      [] frame.route = "research_methods" ->
            Entering(frame, self, "generate_methods", CorpusLen(corpus))
      [] frame.route = "_get_research_hints" ->
            Entering(frame, self, "generate_archetypes", 1)

\* analyze_sessions() around the profiles its generate_archetypes call returned
AnalysisOver(object, profiles) ==
    Analysis(object.corpus,
             CategoryCounts([engine |-> object, derived |-> FALSE, value |-> profiles]))

\* The handler after generate_archetypes returned `profiles`: the rest of
\* the engine method and of the route touches nothing shared
AfterArchetypes(frame, object, profiles) ==
    CASE frame.route = "research_archetypes" ->
            [done |-> TRUE,
             response |-> Answered(frame, [success |-> TRUE, count |-> Len(profiles),
                                           archetypes |-> profiles])]
      [] frame.route = "research_analytics" ->
            [done |-> TRUE,
             response |-> Answered(frame, [success |-> TRUE,
                                           analytics |-> AnalysisOver(object, profiles).value])]
      [] frame.route = "research_methods" ->
            LET methods == Methods(AnalysisOver(object, profiles), frame.limit).value
            IN  [done |-> TRUE,
                 response |-> Answered(frame, [success |-> TRUE, count |-> Len(methods),
                                               methods |-> methods])]
      [] frame.route = "_get_research_hints" /\ frame.call = "generate_archetypes" ->
            [done |-> FALSE,
             frame |-> Entering([frame EXCEPT !.hints_parts = ArchetypePart(profiles)],
                                frame.self, "generate_methods", CorpusLen(object.corpus))]
      [] frame.route = "_get_research_hints" /\ frame.call = "generate_methods" ->
            LET methods == Methods(AnalysisOver(object, profiles), frame.limit).value
                text == HintsText(frame.hints_parts, methods, frame.limit)
            IN  [done |-> TRUE,
                 response |-> [op |-> frame.route, raised |-> text.raised,
                               self |-> frame.self, limit |-> frame.limit,
                               value |-> text.value]]

\* generate_archetypes returns in handler t, the module being `module`
Leave(t, module, after) ==
    /\ server' = [module EXCEPT !.threads[t] = IF after.done THEN Idle ELSE after.frame]
    /\ ret' = IF after.done THEN after.response ELSE ret
    /\ UNCHANGED <<defaultFile, engine, twin, arg, derivations>>

InitServer ==
    /\ defaultFile \in ServerFiles
    /\ engine = NoEngine
    /\ twin = NoEngine
    /\ arg = NoCorpus
    /\ derivations = 0
    /\ ret = [op |-> "none", raised |-> "none"]
    /\ server = Serving

\* A request arrives and a handler starts on it
Request(t, route, limit) ==
    /\ server.threads[t].pc = "idle"
    /\ server' = [server EXCEPT !.threads[t] =
                     [pc |-> IF route = "research_reload" THEN "research_reload"
                             ELSE "get_research_engine",
                      route |-> route, limit |-> limit]]
    /\ UNCHANGED <<defaultFile, engine, twin, arg, derivations, ret>>

\* get_research_engine: if research_engine is None
TestEngine(t) ==
    /\ server.threads[t].pc = "get_research_engine"
    /\ server' = [server EXCEPT !.threads[t].pc =
                     IF server.research_engine = None THEN "construct" ELSE "return"]
    /\ UNCHANGED <<defaultFile, engine, twin, arg, derivations, ret>>

\* get_research_engine: research_engine = SyntheticResearchEngine()
Constructing(t, frame, made) ==
    /\ frame.pc = "construct"
    /\ made.raised = "none" => Len(server.objects) < MaxEngines
    /\ server' = [Built(made) EXCEPT !.threads[t] =
                     IF made.raised = "none" THEN [frame EXCEPT !.pc = "return"]
                     ELSE Idle]
    /\ ret' = IF made.raised = "none" THEN ret ELSE Failed(frame, made.raised)
    /\ UNCHANGED <<defaultFile, engine, twin, arg, derivations>>

LazyConstruct(t) ==
    Constructing(t, server.threads[t], NewEngine(NoCorpus, DefaultSeed, defaultFile))

\* get_research_engine: return research_engine, and the route calls the
\* engine it was handed
ReturnEngine(t) ==
    /\ server.threads[t].pc = "return"
    /\ server' = [server EXCEPT !.threads[t] =
                     FirstCall(@, server.research_engine,
                               server.objects[server.research_engine].corpus)]
    /\ UNCHANGED <<defaultFile, engine, twin, arg, derivations, ret>>

\* generate_archetypes: if self._profiles: return self._profiles[:max_archetypes];
\* otherwise profiles = [] and the loop starts
Entered(t, frame, object) ==
    /\ frame.pc = "generate_archetypes"
    /\ IF object.profiles # <<>>
       THEN Leave(t, server,
                  AfterArchetypes(frame, object,
                                  PyPrefix(object.profiles, frame.max_archetypes)))
       ELSE /\ server' = [server EXCEPT !.threads[t].pc = "for session",
                                        !.runs[frame.self].derived = @ + 1]
            /\ UNCHANGED <<defaultFile, engine, twin, arg, derivations, ret>>

EnterArchetypes(t) ==
    /\ server.threads[t].pc = "generate_archetypes"
    /\ Entered(t, server.threads[t], server.objects[server.threads[t].self])

\* Variant: the loop appends to self._profiles itself
AppendedToCache(module, t, self, profile) ==
    [module EXCEPT !.threads[t].profiles = Append(@, profile),
                   !.threads[t].at = @ + 1,
                   !.objects[self].profiles = Append(@, profile)]

\* profiles.append(SessionProfile(...)): the list is the handler's own
Appended(module, t, self, profile) ==
    [module EXCEPT !.threads[t].profiles = Append(@, profile),
                   !.threads[t].at = @ + 1]

\* One iteration of `for session in self.corpus`
Iterated(t, frame, sessions) ==
    /\ frame.pc = "for session"
    /\ frame.at <= Len(sessions)
    /\ server' = IF sessions[frame.at].turns = <<>>
                 THEN [server EXCEPT !.threads[t].at = @ + 1]
                 ELSE Appended(server, t, frame.self, ProfileOf[sessions[frame.at]])
    /\ UNCHANGED <<defaultFile, engine, twin, arg, derivations, ret>>

LoopStep(t) ==
    /\ server.threads[t].pc = "for session"
    /\ Iterated(t, server.threads[t],
                server.objects[server.threads[t].self].corpus.sessions)

\* self._profiles = profiles; return profiles[:max_archetypes]
Stored(t, frame, object) ==
    /\ frame.pc = "for session"
    /\ frame.at > Len(object.corpus.sessions)
    /\ Leave(t, [server EXCEPT !.objects[frame.self].profiles = frame.profiles,
                               !.runs[frame.self].written = @ + 1],
             AfterArchetypes(frame, object, PyPrefix(frame.profiles, frame.max_archetypes)))

Store(t) ==
    /\ server.threads[t].pc = "for session"
    /\ Stored(t, server.threads[t], server.objects[server.threads[t].self])

\* research_reload: research_engine = SyntheticResearchEngine()
Reloading(t, frame, made) ==
    /\ frame.pc = "research_reload"
    /\ made.raised = "none" => Len(server.objects) < MaxEngines
    /\ server' = [Built(made) EXCEPT !.threads[t] = Idle]
    /\ ret' = IF made.raised = "none"
              THEN [op |-> frame.route, raised |-> "none", status |-> 200,
                    self |-> Len(server.objects) + 1,
                    value |-> [success |-> TRUE, message |-> "Research engine reloaded"]]
              ELSE Failed(frame, made.raised)
    /\ UNCHANGED <<defaultFile, engine, twin, arg, derivations>>

Reload(t) ==
    Reloading(t, server.threads[t], NewEngine(NoCorpus, DefaultSeed, defaultFile))

\* process_ground_truth.py rewrites the corpus file, or the file is removed
Rewrite(file) ==
    /\ file # defaultFile
    /\ defaultFile' = file
    /\ UNCHANGED <<engine, twin, arg, derivations, ret, server>>

NextServer ==
    \/ \E t \in Threads, route \in ResearchRoutes :
          \E limit \in RequestLimits(route) : Request(t, route, limit)
    \/ \E t \in Threads : TestEngine(t)
    \/ \E t \in Threads : LazyConstruct(t)
    \/ \E t \in Threads : ReturnEngine(t)
    \/ \E t \in Threads : EnterArchetypes(t)
    \/ \E t \in Threads : LoopStep(t)
    \/ \E t \in Threads : Store(t)
    \/ \E t \in Threads : Reload(t)
    \/ \E file \in ServerFiles : Rewrite(file)

SpecServer == InitServer /\ [][NextServer]_vars

----------------------------------------------------------------------------
(* The server from the moment an engine over the transcripts is installed: *)
(* handlers of the three analytics routes running against the one engine,  *)
(* the corpus file left alone                                              *)

AnalyticsRoutes == {"research_archetypes", "research_analytics", "research_methods"}

InitHandlers ==
    /\ defaultFile = FileTranscripts
    /\ engine = NoEngine
    /\ twin = NoEngine
    /\ arg = NoCorpus
    /\ derivations = 0
    /\ ret = [op |-> "none", raised |-> "none"]
    /\ server = [Serving EXCEPT
                    !.research_engine = 1,
                    !.objects = <<NewEngine(NoCorpus, DefaultSeed, FileTranscripts).engine>>,
                    !.runs = <<[derived |-> 0, written |-> 0]>>]

NextHandlers ==
    \/ \E t \in Threads, route \in AnalyticsRoutes :
          \E limit \in RequestLimits(route) : Request(t, route, limit)
    \/ \E t \in Threads : TestEngine(t)
    \/ \E t \in Threads : ReturnEngine(t)
    \/ \E t \in Threads : EnterArchetypes(t)
    \/ \E t \in Threads : LoopStep(t)
    \/ \E t \in Threads : Store(t)

SpecHandlers == InitHandlers /\ [][NextHandlers]_vars

----------------------------------------------------------------------------
(* Properties of the HTTP layer *)

\* The complete profile list of a corpus: one profile per session with
\* turns, in corpus order
CompleteList(corpus) ==
    LET with_turns == SelectSeq(corpus.sessions, LAMBDA session : Len(session.turns) >= 1)
    IN  [i \in 1..Len(with_turns) |-> ProfileOf[with_turns[i]]]

\* The digest as the claim describes it, for the engine `object`
DigestAsClaimed(object, limit) ==
    LET methods == generate_methods(Cold(object), limit).value
        keywords == PyPrefix(CompleteList(object.corpus)[1].top_keywords, 5)
        method_lines == [i \in 1..Min(limit, Len(methods)) |->
                            methods[i].method \o ": "
                              \o JoinStrings(PyPrefix(methods[i].suggested_moves, 2), "; ")]
    IN  JoinStrings(<<"Archetype pattern: " \o JoinStrings(keywords, ", "),
                      "Method hints: " \o JoinStrings(method_lines, " | ")>>, "\n")

\* C23: whenever the corpus has a session with turns, _get_research_hints
\* returns a non-empty text of one line per part: first the archetype part
\* (up to 5 top keywords of the first profile, comma-joined), then the
\* methods part (for each of the top `limit` methods its display name, a
\* colon and up to 2 suggested moves, the methods joined by pipes).
C23_DigestOneLinePerPart ==
    (/\ server.serving
     /\ ret.op = "_get_research_hints"
     /\ "self" \in DOMAIN ret
     /\ CompleteList(server.objects[ret.self].corpus) # <<>>) =>
        /\ ret.value # ""
        /\ ret.value = DigestAsClaimed(server.objects[ret.self], ret.limit)

\* C24: the profile cache is replaced atomically: in every reachable state,
\* at every intermediate point of a derivation and in every interleaving of
\* concurrent callers, the cache of an engine is empty or the complete
\* profile list of its corpus, and no reader is handed part of a list.
C24_CacheEmptyOrComplete ==
    server.serving =>
        /\ \A e \in 1..Len(server.objects) :
              server.objects[e].profiles
                  \in {<<>>, CompleteList(server.objects[e].corpus)}
        /\ (ret.op = "research_archetypes" /\ ret.raised = "none") =>
              ret.value.archetypes
                  = PyPrefix(CompleteList(server.objects[ret.self].corpus), ArchetypesLimit)

C24_Witness ==
    /\ server.serving
    /\ \E t \in Threads :
          /\ server.threads[t].pc = "for session"
          /\ Len(server.threads[t].profiles) = 1
          /\ Len(server.objects[server.threads[t].self].profiles) = 2
          /\ ret.self = server.threads[t].self
    /\ ret.op = "research_archetypes"
    /\ Len(ret.value.archetypes) = 2

\* C25: the first-call cache population is a critical section: for any
\* interleaving of two or more handlers that reach generate_archetypes,
\* analyze_sessions or generate_methods on a cold engine, the profile
\* derivation is executed once and the cache is written once.  Every
\* corpus the server loads has a session with turns, so a second run on an
\* engine is a duplicate population.
C25_PopulatedOnce ==
    server.serving =>
        \A e \in 1..Len(server.objects) :
            /\ server.runs[e].derived <= 1
            /\ server.runs[e].written <= 1

\* Handler t finishes research_reload, or the construction in
\* get_research_engine
ReloadStep(t) ==
    server.threads[t].pc = "research_reload" /\ server'.threads[t].pc = "idle"

LazyStep(t) ==
    server.threads[t].pc = "construct" /\ server'.threads[t].pc # "construct"

\* A failed construction leaves the module-level engine and every cache
\* as they were; a successful one installs a cold engine
ConstructionOutcomes ==
    \A t \in Threads :
        (ReloadStep(t) \/ LazyStep(t)) =>
            IF Load(GROUND_TRUTH_PATH, defaultFile).raised # "none"
            THEN /\ server'.research_engine = server.research_engine
                 /\ server'.objects = server.objects
            ELSE /\ server'.research_engine = Len(server.objects) + 1
                 /\ server'.objects[server'.research_engine].profiles = <<>>
                 /\ SubSeq(server'.objects, 1, Len(server.objects)) = server.objects

\* An installed engine gives way to another only in a research_reload
OnlyReloadReplaces ==
    (/\ server.research_engine # None
     /\ server'.research_engine # server.research_engine) =>
        \E t \in Threads : ReloadStep(t) /\ ret'.op = "research_reload"

\* C30: the shared engine is replaced only by a successful reload: a
\* failed construction in research_reload leaves the installed engine and
\* its cache as they were, a successful one installs a cold engine, and a
\* failed lazy construction in get_research_engine leaves the engine unset.
C30_ReplacedOnlyByReload ==
    [][server.serving => (OnlyReloadReplaces /\ ConstructionOutcomes)]_vars


====
